---- MODULE Spec2Model ----
(***************************************************************************)
(* Verification model of aurora-engine's key/byte encoders (src/types.rs)  *)
(* and of its JSON value tree and extraction API (engine/src/json.rs).     *)
(*                                                                         *)
(* Every function of the two files is pure.  Each is an operator here,     *)
(* and each component is driven by a small state machine whose actions     *)
(* call the function on inputs drawn from bounded sets and record the      *)
(* call (arguments and returned value) in the state.  A behaviour makes    *)
(* one call of a function (two of the key encoders, whose results are      *)
(* compared with each other), or builds and renders one document twice.    *)
(*                                                                         *)
(* Bytes and characters are naturals (a `char`/`u8` is its code), byte     *)
(* arrays and Strings are sequences of them.                               *)
(***************************************************************************)
EXTENDS Integers, Sequences, FiniteSets, TLC

VARIABLES
    prev, last,     \* the two most recent key-encoder calls (types.rs)
    hexCall,        \* the most recent bytes_to_hex call
    logCall,        \* the most recent log_to_bytes call
    jcall,          \* the most recent JsonValue accessor / conversion call
    pairs,          \* the key/value pairs a document is built from
    obj,            \* obj[b]: the JsonObject under construction by builder b
    todo,           \* todo[b]: the pairs builder b has not inserted yet
    order,          \* order[b]: the keys in the order builder b inserted them
    val,            \* val[b]: From<JsonObject>, the finished JsonValue
    out             \* out[b]: the Debug/Display rendering of val[b]

vars == <<prev, last, hexCall, logCall, jcall, pairs, obj, todo, order, val, out>>

keyVars == <<prev, last>>
objVars == <<pairs, obj, todo, order, val, out>>

(***************************************************************************)
(* Generic helpers                                                         *)
(***************************************************************************)

\* u8: the width of a byte; `x as u8` keeps the low 8 bits.
U8Modulus == 256

AsU8(n) == n % U8Modulus

NoCall == [fn |-> "none"]

(***************************************************************************)
(* src/types.rs : key encoders                                             *)
(***************************************************************************)

\* RawAddress = [u8; 20], RawH256 = [u8; 32]
AddrLen == 20
SlotLen == 32

\* enum KeyPrefix, with its discriminants
KeyPrefix == {"Config", "Nonce", "Balance", "Code", "Storage"}

\* Faulty variant: the prefix is not written (byte 0 stays zero).
PrefixAsU8NoDiscriminant(prefix) == 0

\* `prefix as u8`
PrefixAsU8(prefix) ==
    CASE prefix = "Config"  -> 0
      [] prefix = "Nonce"   -> 1
      [] prefix = "Balance" -> 2
      [] prefix = "Code"    -> 3
      [] prefix = "Storage" -> 4

\* let mut result = [0u8; n]
Zeroed(n) == [i \in 1..n |-> 0]

\* result[from..to].copy_from_slice(src), 0-based half-open range as in Rust
CopyFromSlice(result, from, to, src) ==
    [i \in 1..Len(result) |->
        IF from < i /\ i <= to THEN src[i - from] ELSE result[i]]

\* pub fn address_to_key(prefix: KeyPrefix, address: &H160) -> [u8; 21]
AddressToKey(prefix, address) ==
    LET r0 == Zeroed(1 + AddrLen)
        r1 == [r0 EXCEPT ![1] = PrefixAsU8(prefix)]
    IN  CopyFromSlice(r1, 1, Len(r1), address)

\* Faulty variant: the slot is never copied in.
StorageToKeySlotDropped(address, key) ==
    LET r0 == Zeroed(1 + AddrLen + SlotLen)
        r1 == [r0 EXCEPT ![1] = PrefixAsU8("Storage")]
    IN  CopyFromSlice(r1, 1, 1 + AddrLen, address)

\* pub fn storage_to_key(address: &H160, key: &H256) -> [u8; 53]
StorageToKey(address, key) ==
    LET r0 == Zeroed(1 + AddrLen + SlotLen)
        r1 == [r0 EXCEPT ![1] = PrefixAsU8("Storage")]
        r2 == CopyFromSlice(r1, 1, 1 + AddrLen, address)
    IN  CopyFromSlice(r2, 1 + AddrLen, Len(r2), key)

\* Sample inputs: address n has bytes n*1, n*2, ... (mod 256); the addresses
\* 0..4 therefore begin with a byte that is also a prefix discriminant.
MaxAddrSeed == 5
MaxSlotSeed == 2

Addr(n) == [i \in 1..AddrLen |-> AsU8(n * i)]
Slot(n) == [i \in 1..SlotLen |-> AsU8(255 - n * i)]

Addresses == {Addr(n) : n \in 0..MaxAddrSeed}
Slots     == {Slot(n) : n \in 0..MaxSlotSeed}

CallAddressToKey ==
    /\ prev = NoCall
    /\ \E p \in KeyPrefix, a \in Addresses :
           /\ prev' = last
           /\ last' = [fn |-> "address_to_key", prefix |-> p, address |-> a,
                       key |-> <<>>, ret |-> AddressToKey(p, a)]
           /\ UNCHANGED <<hexCall, logCall, jcall, objVars>>

CallStorageToKey ==
    /\ prev = NoCall
    /\ \E a \in Addresses, k \in Slots :
           /\ prev' = last
           /\ last' = [fn |-> "storage_to_key", prefix |-> "Storage", address |-> a,
                       key |-> k, ret |-> StorageToKey(a, k)]
           /\ UNCHANGED <<hexCall, logCall, jcall, objVars>>

(***************************************************************************)
(* src/types.rs : log_to_bytes                                             *)
(***************************************************************************)

TopicLen == 32

\* The largest number of topics and of data bytes a modelled Log carries.
MaxTopics  == 257
MaxDataLen == 1

Topic(i) == [j \in 1..TopicLen |-> AsU8(i + j)]
Topics(n) == [i \in 1..n |-> Topic(i)]
LogData(n) == [i \in 1..n |-> AsU8(170 + i)]

\* pub fn log_to_bytes(log: Log) -> Vec<u8>
\* result[0] is the topic count cast to u8; the loop copies topic t (0-based)
\* to result[1 + 32 t .. 1 + 32 (t + 1)]; the data fills the rest.  The
\* function has no failure path: it returns the vector for every log.
LogToBytes(topics, data) ==
    LET index == 1 + Len(topics) * TopicLen
        total == 1 + Len(topics) * TopicLen + Len(data)
    IN  [status |-> "returned",
         bytes  |-> [i \in 1..total |->
                        IF i = 1 THEN AsU8(Len(topics))
                        ELSE IF i <= index
                             THEN topics[((i - 2) \div TopicLen) + 1]
                                        [((i - 2) % TopicLen) + 1]
                        ELSE data[i - index]]]

CallLogToBytes ==
    /\ logCall = NoCall
    /\ \E n \in 0..MaxTopics, d \in 0..MaxDataLen :
           /\ logCall' = [fn |-> "log_to_bytes", ntopics |-> n, ndata |-> d,
                          ret |-> LogToBytes(Topics(n), LogData(d))]
           /\ UNCHANGED <<keyVars, hexCall, jcall, objVars>>

(***************************************************************************)
(* src/types.rs : bytes_to_hex                                             *)
(***************************************************************************)

\* const HEX_ALPHABET: &[u8; 16] = b"0123456789abcdef"
HEX_ALPHABET == <<48, 49, 50, 51, 52, 53, 54, 55, 56, 57,
                  97, 98, 99, 100, 101, 102>>

\* Faulty variant: an upper-case alphabet.
HexDigitUpper(d) == IF d < 10 THEN 48 + d ELSE 55 + d

\* HEX_ALPHABET[d as usize] as char
HexDigit(d) == HEX_ALPHABET[d + 1]

RECURSIVE BytesToHexFrom(_, _)
\* the loop `for x in v { result.push(..); result.push(..); }`
BytesToHexFrom(result, v) ==
    IF v = <<>> THEN result
    ELSE LET x == Head(v)
         IN  BytesToHexFrom(
                 Append(Append(result, HexDigit(x \div 16)), HexDigit(x % 16)),
                 Tail(v))

\* pub fn bytes_to_hex(v: &[u8]) -> String
BytesToHex(v) == BytesToHexFrom(<<>>, v)

MaxHexLen == 4
HexBytes == {0, 1, 16, 171, 255}

RECURSIVE SeqsUpTo(_, _)
\* All sequences over S of length at most n.
SeqsUpTo(S, n) ==
    IF n = 0 THEN {<<>>}
    ELSE LET shorter == SeqsUpTo(S, n - 1)
         IN  shorter \cup {Append(s, x) : s \in shorter, x \in S}

CallBytesToHex ==
    /\ hexCall = NoCall
    /\ \E v \in SeqsUpTo(HexBytes, MaxHexLen) :
           /\ hexCall' = [fn |-> "bytes_to_hex", v |-> v, ret |-> BytesToHex(v)]
           /\ UNCHANGED <<keyVars, logCall, jcall, objVars>>

(***************************************************************************)
(* engine/src/json.rs : the value tree                                     *)
(***************************************************************************)

\* enum JsonValue.  A String is a sequence of character codes.  An f64 is
\* [nan |-> TRUE] for NaN or a value twice/2 (halves are exact in binary).
\* An Object holds a BTreeMap<String, JsonValue>: its entries <<key, value>>
\* in iteration order, which is ascending key order.
JNull      == [tag |-> "Null"]
JF64(x)    == [tag |-> "F64", f64 |-> x]
JI64(n)    == [tag |-> "I64", i64 |-> n]
JU64(n)    == [tag |-> "U64", u64 |-> n]
JBool(b)   == [tag |-> "Bool", bool |-> b]
JString(s) == [tag |-> "String", str |-> s]
JArray(a)  == [tag |-> "Array", vec |-> a]
JObject(m) == [tag |-> "Object", map |-> m]

NaN      == [nan |-> TRUE, twice |-> 0]
Half(h)  == [nan |-> FALSE, twice |-> h]

\* f64's PartialEq: IEEE equality, under which NaN equals nothing.
F64Eq(x, y) == ~x.nan /\ ~y.nan /\ x.twice = y.twice

\* Result<T, JsonError>
Ok(x)  == [ok |-> TRUE, val |-> x]
Err(e) == [ok |-> FALSE, err |-> e]

RECURSIVE StrLess(_, _)
\* String's Ord: lexicographic on the bytes, a proper prefix first.
StrLess(a, b) ==
    IF b = <<>> THEN FALSE
    ELSE IF a = <<>> THEN TRUE
    ELSE IF Head(a) # Head(b) THEN Head(a) < Head(b)
    ELSE StrLess(Tail(a), Tail(b))

\* JsonObject::new / BTreeMap::new
BTreeNew == <<>>

\* Faulty variant: a map that keeps insertion order.
BTreeInsertAtEnd(m, k, v) ==
    LET kept == SelectSeq(m, LAMBDA e : e[1] # k) IN Append(kept, <<k, v>>)

\* JsonObject::insert / BTreeMap::insert: an existing key has its value
\* replaced, a new key is placed in key order.
BTreeInsert(m, k, v) ==
    IF \E i \in 1..Len(m) : m[i][1] = k
    THEN [i \in 1..Len(m) |-> IF m[i][1] = k THEN <<k, v>> ELSE m[i]]
    ELSE LET below == SelectSeq(m, LAMBDA e : StrLess(e[1], k))
             above == SelectSeq(m, LAMBDA e : StrLess(k, e[1]))
         IN  below \o << <<k, v>> >> \o above

\* o.get(key): Some(value) or None
BTreeGet(m, k) ==
    IF \E i \in 1..Len(m) : m[i][1] = k
    THEN [some |-> TRUE, value |-> m[CHOOSE i \in 1..Len(m) : m[i][1] = k][2]]
    ELSE [some |-> FALSE]

RECURSIVE JsonEq(_, _)
\* #[derive(PartialEq)] on JsonValue: same variant and equal contents, with
\* Vec and BTreeMap compared element by element in iteration order.
JsonEq(a, b) ==
    /\ a.tag = b.tag
    /\ CASE a.tag = "Null"   -> TRUE
         [] a.tag = "F64"    -> F64Eq(a.f64, b.f64)
         [] a.tag = "I64"    -> a.i64 = b.i64
         [] a.tag = "U64"    -> a.u64 = b.u64
         [] a.tag = "Bool"   -> a.bool = b.bool
         [] a.tag = "String" -> a.str = b.str
         [] a.tag = "Array"  ->
              /\ Len(a.vec) = Len(b.vec)
              /\ \A i \in 1..Len(a.vec) : JsonEq(a.vec[i], b.vec[i])
         [] a.tag = "Object" ->
              /\ Len(a.map) = Len(b.map)
              /\ \A i \in 1..Len(a.map) :
                    /\ a.map[i][1] = b.map[i][1]
                    /\ JsonEq(a.map[i][2], b.map[i][2])

\* impl From<JsonObject> for JsonValue
FromJsonObject(m) == JObject(m)

(***************************************************************************)
(* engine/src/json.rs : Debug / Display                                    *)
(***************************************************************************)

RECURSIVE NatDigits(_)
\* The decimal digits of a natural number, most significant first.
NatDigits(n) ==
    IF n < 10 THEN <<48 + n>> ELSE Append(NatDigits(n \div 10), 48 + (n % 10))

\* "{}" of an i64 or u64
FmtInt(n) == IF n < 0 THEN <<45>> \o NatDigits(-n) ELSE NatDigits(n)

\* "{}" of an f64: NaN, or the shortest decimal, without a fraction when the
\* value is whole
FmtF64(x) ==
    IF x.nan THEN <<78, 97, 78>>
    ELSE LET a    == IF x.twice < 0 THEN -x.twice ELSE x.twice
             sign == IF x.twice < 0 THEN <<45>> ELSE <<>>
             frac == IF a % 2 = 1 THEN <<46, 53>> ELSE <<>>
         IN  sign \o NatDigits(a \div 2) \o frac

Quoted(s) == <<34>> \o s \o <<34>>

RECURSIVE Fmt(_)
RECURSIVE FmtItems(_, _)
RECURSIVE FmtPairs(_, _)

\* the first item bare, every later one after ", "
FmtItems(arr, first) ==
    IF arr = <<>> THEN <<>>
    ELSE (IF first THEN <<>> ELSE <<44, 32>>)
         \o Fmt(Head(arr)) \o FmtItems(Tail(arr), FALSE)

\* the first pair as "key": value, every later one after ", "
FmtPairs(kvs, first) ==
    IF kvs = <<>> THEN <<>>
    ELSE (IF first THEN <<>> ELSE <<44, 32>>)
         \o Quoted(Head(kvs)[1]) \o <<58, 32>> \o Fmt(Head(kvs)[2])
         \o FmtPairs(Tail(kvs), FALSE)

\* impl Debug for JsonValue (Display forwards to it)
Fmt(v) ==
    CASE v.tag = "Null"   -> <<110, 117, 108, 108>>
      [] v.tag = "String" -> Quoted(v.str)
      [] v.tag = "F64"    -> FmtF64(v.f64)
      [] v.tag = "I64"    -> FmtInt(v.i64)
      [] v.tag = "U64"    -> FmtInt(v.u64)
      [] v.tag = "Bool"   -> IF v.bool THEN <<116, 114, 117, 101>>
                             ELSE <<102, 97, 108, 115, 101>>
      [] v.tag = "Array"  -> <<91>> \o FmtItems(v.vec, TRUE) \o <<93>>
      [] v.tag = "Object" -> <<123>> \o FmtPairs(v.map, TRUE) \o <<125>>


(***************************************************************************)
(* engine/src/json.rs : str::parse::<u128>() and str::parse::<i128>()      *)
(*                                                                         *)
(* 128-bit values do not fit the model checker's integers, so a value is   *)
(* its sequence of decimal digits without leading zeros (zero is <<0>>)    *)
(* and the limits are the exact type limits.                               *)
(***************************************************************************)

\* u128::MAX = 2^128 - 1, i128::MAX = 2^127 - 1, |i128::MIN| = 2^127
U128Max    == <<3, 4, 0, 2, 8, 2, 3, 6, 6, 9, 2, 0, 9, 3, 8, 4, 6, 3, 4, 6, 3, 3, 7, 4, 6, 0, 7, 4, 3, 1, 7, 6, 8, 2, 1, 1, 4, 5, 5>>
I128Max    == <<1, 7, 0, 1, 4, 1, 1, 8, 3, 4, 6, 0, 4, 6, 9, 2, 3, 1, 7, 3, 1, 6, 8, 7, 3, 0, 3, 7, 1, 5, 8, 8, 4, 1, 0, 5, 7, 2, 7>>
I128MinMag == <<1, 7, 0, 1, 4, 1, 1, 8, 3, 4, 6, 0, 4, 6, 9, 2, 3, 1, 7, 3, 1, 6, 8, 7, 3, 0, 3, 7, 1, 5, 8, 8, 4, 1, 0, 5, 7, 2, 8>>

\* value + 1, for the limits above (none ends in a 9)
BigSucc(ds) == [ds EXCEPT ![Len(ds)] = @ + 1]

\* a <= b on digit sequences without leading zeros
RECURSIVE DigitsLeq(_, _)
DigitsLeq(a, b) ==
    IF a = <<>> THEN TRUE
    ELSE IF Head(a) # Head(b) THEN Head(a) < Head(b)
    ELSE DigitsLeq(Tail(a), Tail(b))

BigLeq(a, b) == Len(a) < Len(b) \/ (Len(a) = Len(b) /\ DigitsLeq(a, b))

\* result * 10 + x
BigPush(acc, x) == IF acc = <<0>> THEN <<x>> ELSE Append(acc, x)

RECURSIVE Accumulate(_, _, _)
\* the digit loop of from_str_radix: a character that is no digit fails, and
\* so does checked_mul / checked_add (checked_sub) leaving the type's range
Accumulate(acc, digits, limit) ==
    IF digits = <<>> THEN Ok(acc)
    ELSE IF Head(digits) \notin 48..57 THEN Err("InvalidDigit")
    ELSE LET next == BigPush(acc, Head(digits) - 48)
         IN  IF ~BigLeq(next, limit) THEN Err("Overflow")
             ELSE Accumulate(next, Tail(digits), limit)

\* core::num::from_str_radix(src, 10): the empty string and a lone sign fail;
\* a leading '+' is accepted by every integer type, a leading '-' only by
\* the signed ones (for an unsigned type it is an invalid digit).
FromStr(src, isSigned, maxPos, maxNegMag) ==
    IF src = <<>> THEN Err("Empty")
    ELSE IF Len(src) = 1 /\ Head(src) \in {43, 45} THEN Err("InvalidDigit")
    ELSE IF Head(src) = 43 THEN Accumulate(<<0>>, Tail(src), maxPos)
    ELSE IF Head(src) = 45 /\ isSigned
         THEN Accumulate(<<0>>, Tail(src), maxNegMag)
    ELSE Accumulate(<<0>>, src, maxPos)

\* n.parse::<u128>()
ParseU128(n) == FromStr(n, FALSE, U128Max, <<0>>)

\* Faulty variant: a signed parse that accepts magnitudes up to 2^128.
ParseI128_Wide(n) == FromStr(n, TRUE, BigSucc(U128Max), I128MinMag)

\* n.parse::<i128>()
ParseI128(n) == FromStr(n, TRUE, I128Max, I128MinMag)

(***************************************************************************)
(* engine/src/json.rs : the extraction API                                 *)
(***************************************************************************)

\* Faulty variant: the signed parse is tried before the unsigned one.
TryFromU128SignedFirst(value) ==
    CASE value.tag = "String" ->
            IF ParseI128(value.str).ok
            THEN Err("OutOfRange(OutOfRangeU128)")
            ELSE IF ParseU128(value.str).ok THEN Ok(ParseU128(value.str).val)
            ELSE Err("InvalidU128")
      [] value.tag \in {"F64", "I64", "U64"} -> Err("ExpectedStringGotNumber")
      [] OTHER -> Err("InvalidU128")

\* impl TryFrom<&JsonValue> for u128
TryFromU128(value) ==
    CASE value.tag = "String" ->
            IF ParseU128(value.str).ok THEN Ok(ParseU128(value.str).val)
            ELSE IF ParseI128(value.str).ok
                 THEN Err("OutOfRange(OutOfRangeU128)")
            ELSE Err("InvalidU128")
      [] value.tag = "F64" -> Err("ExpectedStringGotNumber")
      [] value.tag = "I64" -> Err("ExpectedStringGotNumber")
      [] value.tag = "U64" -> Err("ExpectedStringGotNumber")
      [] OTHER -> Err("InvalidU128")

\* pub fn string(&self, key: &str) -> Result<String, JsonError>
JsonValue_string(self, key) ==
    IF self.tag = "Object"
    THEN LET g == BTreeGet(self.map, key)
         IN  IF ~g.some THEN Err("MissingValue")
             ELSE IF g.value.tag = "String" THEN Ok(g.value.str)
             ELSE Err("InvalidString")
    ELSE Err("NotJsonType")

\* Faulty variant: a non-negative I64 is coerced to u64.
JsonValue_u64_Coercing(self, key) ==
    IF self.tag = "Object"
    THEN LET g == BTreeGet(self.map, key)
         IN  IF ~g.some THEN Err("MissingValue")
             ELSE IF g.value.tag = "U64" THEN Ok(g.value.u64)
             ELSE IF g.value.tag = "I64" /\ g.value.i64 >= 0 THEN Ok(g.value.i64)
             ELSE Err("InvalidU64")
    ELSE Err("NotJsonType")

\* pub fn u64(&self, key: &str) -> Result<u64, JsonError>
JsonValue_u64(self, key) ==
    IF self.tag = "Object"
    THEN LET g == BTreeGet(self.map, key)
         IN  IF ~g.some THEN Err("MissingValue")
             ELSE IF g.value.tag = "U64" THEN Ok(g.value.u64)
             ELSE Err("InvalidU64")
    ELSE Err("NotJsonType")

\* pub fn u128(&self, key: &str) -> Result<u128, JsonError>
JsonValue_u128(self, key) ==
    IF self.tag = "Object"
    THEN LET g == BTreeGet(self.map, key)
         IN  IF ~g.some THEN Err("MissingValue") ELSE TryFromU128(g.value)
    ELSE Err("NotJsonType")

\* Faulty variant: the lookup comes before the shape test, so a receiver
\* that is no Object reports a missing value.
JsonValue_bool_LookupFirst(self, key) ==
    LET g == IF self.tag = "Object" THEN BTreeGet(self.map, key)
             ELSE [some |-> FALSE]
    IN  IF ~g.some THEN Err("MissingValue")
        ELSE IF g.value.tag = "Bool" THEN Ok(g.value.bool)
        ELSE Err("InvalidBool")

\* pub fn bool(&self, key: &str) -> Result<bool, JsonError>
JsonValue_bool(self, key) ==
    IF self.tag = "Object"
    THEN LET g == BTreeGet(self.map, key)
         IN  IF ~g.some THEN Err("MissingValue")
             ELSE IF g.value.tag = "Bool" THEN Ok(g.value.bool)
             ELSE Err("InvalidBool")
    ELSE Err("NotJsonType")

\* u8::MAX
U8Max == 255

\* Faulty variant: no range test, the cast wraps.
JsonValue_parse_u8_Wrapping(v) ==
    IF v.tag = "U64" THEN Ok(AsU8(v.u64)) ELSE Err("InvalidU8")

\* pub fn parse_u8(v: &JsonValue) -> Result<u8, JsonError>
JsonValue_parse_u8(v) ==
    IF v.tag = "U64"
    THEN IF v.u64 > U8Max THEN Err("OutOfRange(OutOfRangeU8)")
         ELSE Ok(AsU8(v.u64))
    ELSE Err("InvalidU8")


(***************************************************************************)
(* Inputs of the extraction API                                            *)
(***************************************************************************)

\* the characters '0'..'9' of a digit sequence
DigitChars(ds) == [i \in 1..Len(ds) |-> 48 + ds[i]]

\* Decimal strings at the edges of the 128-bit ranges:
\* "340282366920938463463374607431768211455" and its successor, with a '+',
\* a '-' and a leading zero; i128::MAX, its successor, i128::MIN and its
\* predecessor; a 40-digit number.
EdgeStrings ==
    { DigitChars(U128Max),
      DigitChars(BigSucc(U128Max)),
      <<43>> \o DigitChars(U128Max),
      <<43>> \o DigitChars(BigSucc(U128Max)),
      <<45>> \o DigitChars(U128Max),
      <<48>> \o DigitChars(U128Max),
      <<48>> \o DigitChars(BigSucc(U128Max)),
      DigitChars(U128Max) \o <<48>>,
      DigitChars(U128Max) \o <<97>>,
      DigitChars(I128Max),
      DigitChars(I128MinMag),
      <<45>> \o DigitChars(I128Max),
      <<45>> \o DigitChars(I128MinMag),
      <<45>> \o DigitChars(BigSucc(I128MinMag)),
      <<45, 48>> \o DigitChars(I128MinMag) }

\* Short strings over '-', '+', '0', '1', '9', 'a' and ' '.
MaxStrLen == 3
ParseAlphabet == {45, 43, 48, 49, 57, 97, 32}

ParseStrings == SeqsUpTo(ParseAlphabet, MaxStrLen) \cup EdgeStrings

\* u64 and i64 samples stay inside the model checker's integers; every u64
\* from 0 to MaxU64Probe is tried by parse_u8.
MaxU64Probe == 600

\* Values a field (or a receiver that is no Object) holds.
FieldValues ==
    { JNull,
      JF64(NaN), JF64(Half(0)), JF64(Half(3)), JF64(Half(510)),
      JI64(-1), JI64(0), JI64(255), JI64(-2147483647),
      JU64(0), JU64(1), JU64(255), JU64(256), JU64(2147483647),
      JBool(TRUE), JBool(FALSE),
      JString(<<>>), JString(<<97, 98>>), JString(<<49, 50>>),
      JString(<<45, 48>>), JString(<<45, 53>>), JString(<<116, 114, 117, 101>>),
      JString(DigitChars(U128Max)), JString(DigitChars(BigSucc(U128Max))),
      JArray(<<>>), JArray(<<JU64(1), JString(<<49>>)>>),
      JObject(BTreeNew), JObject(BTreeInsert(BTreeNew, <<97>>, JU64(1))) }

\* Field names "a" and "b"; "c" is never a field.
FieldKeys  == {<<97>>, <<98>>}
LookupKeys == FieldKeys \cup {<<99>>}

Absent == [tag |-> "Absent"]

\* Every Object over FieldKeys: each key absent or holding a field value.
Objects ==
    { LET withA == IF f[<<97>>] = Absent THEN BTreeNew
                   ELSE BTreeInsert(BTreeNew, <<97>>, f[<<97>>])
          withB == IF f[<<98>>] = Absent THEN withA
                   ELSE BTreeInsert(withA, <<98>>, f[<<98>>])
      IN  JObject(withB) : f \in [FieldKeys -> FieldValues \cup {Absent}] }

Receivers == FieldValues \cup Objects

CallString ==
    /\ jcall = NoCall
    /\ \E v \in Receivers, k \in LookupKeys :
           /\ jcall' = [fn |-> "string", recv |-> v, key |-> k,
                        ret |-> JsonValue_string(v, k)]
           /\ UNCHANGED <<keyVars, hexCall, logCall, objVars>>

CallU64 ==
    /\ jcall = NoCall
    /\ \E v \in Receivers, k \in LookupKeys :
           /\ jcall' = [fn |-> "u64", recv |-> v, key |-> k,
                        ret |-> JsonValue_u64(v, k)]
           /\ UNCHANGED <<keyVars, hexCall, logCall, objVars>>

CallU128 ==
    /\ jcall = NoCall
    /\ \E v \in Receivers, k \in LookupKeys :
           /\ jcall' = [fn |-> "u128", recv |-> v, key |-> k,
                        ret |-> JsonValue_u128(v, k)]
           /\ UNCHANGED <<keyVars, hexCall, logCall, objVars>>

CallBool ==
    /\ jcall = NoCall
    /\ \E v \in Receivers, k \in LookupKeys :
           /\ jcall' = [fn |-> "bool", recv |-> v, key |-> k,
                        ret |-> JsonValue_bool(v, k)]
           /\ UNCHANGED <<keyVars, hexCall, logCall, objVars>>

CallParseU8 ==
    /\ jcall = NoCall
    /\ \E v \in Receivers \cup {JU64(n) : n \in 0..MaxU64Probe} :
           /\ jcall' = [fn |-> "parse_u8", recv |-> v, key |-> <<>>,
                        ret |-> JsonValue_parse_u8(v)]
           /\ UNCHANGED <<keyVars, hexCall, logCall, objVars>>

CallTryFromU128 ==
    /\ jcall = NoCall
    /\ \E v \in Receivers \cup {JString(s) : s \in ParseStrings} :
           /\ jcall' = [fn |-> "try_from", recv |-> v, key |-> <<>>,
                        ret |-> TryFromU128(v)]
           /\ UNCHANGED <<keyVars, hexCall, logCall, objVars>>

(***************************************************************************)
(* Building a document: JsonObject::new, insert, From<JsonObject>, Debug   *)
(***************************************************************************)

Builders == {"A", "B"}

NoValue == [tag |-> "None"]
\* No rendering is empty, so the empty text stands for "not rendered yet".
NoText  == <<>>

\* Keys "b", "a" and "ab"; values 7, NaN, 1.5 and {"z": "x"}.
ObjKeys   == {<<98>>, <<97>>, <<97, 98>>}
ObjValues == { JU64(7), JF64(NaN), JF64(Half(3)),
               JObject(BTreeInsert(BTreeNew, <<122>>, JString(<<120>>))) }

\* Every set of key/value pairs with pairwise distinct keys.
PairSets ==
    { {<<k, f[k]>> : k \in {x \in ObjKeys : f[x] # Absent}} :
        f \in [ObjKeys -> ObjValues \cup {Absent}] }

\* b.insert(k, v) for a pair not inserted yet
Insert(b) ==
    \E p \in todo[b] :
        /\ val[b] = NoValue
        /\ obj'   = [obj EXCEPT ![b] = BTreeInsert(@, p[1], p[2])]
        /\ todo'  = [todo EXCEPT ![b] = @ \ {p}]
        /\ order' = [order EXCEPT ![b] = Append(@, p[1])]
        /\ UNCHANGED <<keyVars, hexCall, logCall, jcall, pairs, val, out>>

\* JsonValue::from(b), once every pair is inserted
Into(b) ==
    /\ todo[b] = {}
    /\ val[b] = NoValue
    /\ val' = [val EXCEPT ![b] = FromJsonObject(obj[b])]
    /\ UNCHANGED <<keyVars, hexCall, logCall, jcall, pairs, obj, todo, order, out>>

\* format!("{:?}", value) / format!("{}", value)
Render(b) ==
    /\ val[b] # NoValue
    /\ out[b] = NoText
    /\ out' = [out EXCEPT ![b] = Fmt(val[b])]
    /\ UNCHANGED <<keyVars, hexCall, logCall, jcall, pairs, obj, todo, order, val>>

(***************************************************************************)
(* Specifications                                                          *)
(*                                                                         *)
(* The components share no state, so each is explored on its own: in       *)
(* SpecKeys only the key encoders are called, and so on.  Spec runs them   *)
(* all.                                                                    *)
(***************************************************************************)

InitFor(ps) ==
    /\ prev = NoCall
    /\ last = NoCall
    /\ hexCall = NoCall
    /\ logCall = NoCall
    /\ jcall = NoCall
    /\ pairs = ps
    /\ obj   = [b \in Builders |-> BTreeNew]
    /\ todo  = [b \in Builders |-> ps]
    /\ order = [b \in Builders |-> <<>>]
    /\ val   = [b \in Builders |-> NoValue]
    /\ out   = [b \in Builders |-> NoText]

InitIdle == InitFor({})
Init     == \E ps \in PairSets : InitFor(ps)

NextKeys == CallAddressToKey \/ CallStorageToKey
NextHex  == CallBytesToHex
NextLog  == CallLogToBytes
NextJson == \/ CallString
            \/ CallU64
            \/ CallU128
            \/ CallBool
            \/ CallParseU8
            \/ CallTryFromU128
NextObj  == \E b \in Builders : Insert(b) \/ Into(b) \/ Render(b)

Next == NextKeys \/ NextHex \/ NextLog \/ NextJson \/ NextObj

SpecKeys == InitIdle /\ [][NextKeys]_vars
SpecHex  == InitIdle /\ [][NextHex]_vars
SpecLog  == InitIdle /\ [][NextLog]_vars
SpecJson == InitIdle /\ [][NextJson]_vars
SpecObj  == Init /\ [][NextObj]_vars
Spec     == Init /\ [][Next]_vars


(***************************************************************************)
(* Properties                                                              *)
(***************************************************************************)

IsErr(r, e) == ~r.ok /\ r.err = e
IsOk(r, x)  == r.ok /\ r.val = x

KeyCalls(fn) == {c \in {prev, last} : c.fn = fn}

\* The discriminants as the key layout documents them.
DocumentedPrefixByte ==
    [Config |-> 0, Nonce |-> 1, Balance |-> 2, Code |-> 3, Storage |-> 4]

\* C1: an address key is 21 bytes, the prefix discriminant (0..4) followed by
\* the 20 address bytes unchanged; keys of different prefixes never collide,
\* whatever the addresses, and within one prefix equal keys mean equal
\* addresses.
C1_AddressKeyPartition ==
    /\ \A c \in KeyCalls("address_to_key") :
          /\ Len(c.ret) = 21
          /\ c.ret[1] = DocumentedPrefixByte[c.prefix]
          /\ c.ret[1] \in 0..4
          /\ \A i \in 1..20 : c.ret[i + 1] = c.address[i]
    /\ \A c \in KeyCalls("address_to_key"), d \in KeyCalls("address_to_key") :
          /\ c.prefix # d.prefix => c.ret # d.ret
          /\ (c.prefix = d.prefix /\ c.ret = d.ret) => c.address = d.address

\* Two address keys of different prefixes for one address whose first byte
\* is itself the discriminant of the other prefix.
C1_Witness ==
    /\ prev.fn = "address_to_key" /\ last.fn = "address_to_key"
    /\ prev.prefix = "Storage" /\ last.prefix = "Nonce"
    /\ prev.address = last.address
    /\ prev.address[1] = 1
    /\ prev.ret # last.ret

\* C2: a storage key is 53 bytes; its first 21 bytes are the Storage address
\* key of the address and its last 32 bytes the slot unchanged, so equal
\* storage keys mean equal address and equal slot.
C2_StorageKeyLayout ==
    /\ \A c \in KeyCalls("storage_to_key") :
          /\ Len(c.ret) = 53
          /\ SubSeq(c.ret, 1, 21) = AddressToKey("Storage", c.address)
          /\ SubSeq(c.ret, 22, 53) = c.key
          /\ \A d \in KeyCalls("address_to_key") :
                (d.prefix = "Storage" /\ d.address = c.address)
                    => SubSeq(c.ret, 1, 21) = d.ret
    /\ \A c \in KeyCalls("storage_to_key"), d \in KeyCalls("storage_to_key") :
          c.ret = d.ret => (c.address = d.address /\ c.key = d.key)

\* Two storage keys of one address and different slots.
C2_Witness ==
    /\ prev.fn = "storage_to_key" /\ last.fn = "storage_to_key"
    /\ prev.address = last.address
    /\ prev.key # last.key
    /\ prev.ret # last.ret
    /\ SubSeq(prev.ret, 1, 21) = SubSeq(last.ret, 1, 21)

FieldAccessors == {"string", "u64", "u128", "bool"}

\* C3: string(key), u64(key), u128(key) and bool(key) on a value that is not
\* an Object return Err(NotJsonType), for every key and every such value.
C3_NotJsonTypeOffObject ==
    (jcall.fn \in FieldAccessors /\ jcall.recv.tag # "Object")
        => IsErr(jcall.ret, "NotJsonType")

C3_Witness ==
    /\ jcall.fn = "bool"
    /\ jcall.recv = JBool(TRUE)
    /\ IsErr(jcall.ret, "NotJsonType")

\* The entries of the receiver stored under the looked-up key.
Found == {i \in 1..Len(jcall.recv.map) : jcall.recv.map[i][1] = jcall.key}
FoundValue == jcall.recv.map[CHOOSE i \in Found : TRUE][2]

OwnVariant  == [string |-> "String", u64 |-> "U64", bool |-> "Bool"]
OwnError    == [string |-> "InvalidString", u64 |-> "InvalidU64",
                bool |-> "InvalidBool"]
Payload(x)  == CASE x.tag = "String" -> x.str
                 [] x.tag = "U64"    -> x.u64
                 [] x.tag = "Bool"   -> x.bool

\* C4: string, u64 and bool on an Object: an absent key gives MissingValue;
\* a key holding another variant gives the accessor's own error, without
\* coercion; a key holding the accessor's variant gives Ok of the stored
\* value.
C4_AccessorContract ==
    (jcall.fn \in {"string", "u64", "bool"} /\ jcall.recv.tag = "Object")
        => IF Found = {} THEN IsErr(jcall.ret, "MissingValue")
           ELSE IF FoundValue.tag = OwnVariant[jcall.fn]
                THEN IsOk(jcall.ret, Payload(FoundValue))
           ELSE IsErr(jcall.ret, OwnError[jcall.fn])

\* u64("a") on {"a": I64(255)}: in range, yet InvalidU64.
C4_Witness ==
    /\ jcall.fn = "u64"
    /\ jcall.recv.tag = "Object"
    /\ Found # {}
    /\ FoundValue = JI64(255)
    /\ IsErr(jcall.ret, "InvalidU64")

\* Decimal text, read as mathematics rather than as the parser reads it: an
\* optional sign, then one or more digits.
HasSign(s)   == s # <<>> /\ s[1] \in {43, 45}
IsMinus(s)   == s # <<>> /\ s[1] = 45
Unsigned(s)  == IF HasSign(s) THEN Tail(s) ELSE s
IsDecimal(s) == /\ Unsigned(s) # <<>>
                /\ \A i \in 1..Len(Unsigned(s)) : Unsigned(s)[i] \in 48..57

\* the magnitude as digits without leading zeros
Magnitude(s) ==
    LET u  == Unsigned(s)
        nz == {i \in 1..Len(u) : u[i] # 48}
    IN  IF nz = {} THEN <<0>>
        ELSE LET first == CHOOSE i \in nz : \A j \in nz : i <= j
             IN  [i \in 1..(Len(u) - first + 1) |-> u[first + i - 1] - 48]

DenotesU128(s) == IsDecimal(s) /\ ~IsMinus(s) /\ BigLeq(Magnitude(s), U128Max)
DenotesI128(s) == /\ IsDecimal(s)
                  /\ IF IsMinus(s) THEN BigLeq(Magnitude(s), I128MinMag)
                     ELSE BigLeq(Magnitude(s), I128Max)

\* The value the u128 extraction converts: the receiver of try_from, the
\* field of u128(key).
U128Call == \/ jcall.fn = "try_from"
            \/ (jcall.fn = "u128" /\ jcall.recv.tag = "Object" /\ Found # {})
Converted == IF jcall.fn = "try_from" THEN jcall.recv ELSE FoundValue

\* C5: the u128 extraction: a String that is an unsigned 128-bit decimal
\* gives Ok of its value, up to 2^128 - 1; any other String that is a signed
\* 128-bit decimal gives OutOfRange(OutOfRangeU128); any other String gives
\* InvalidU128; F64, I64 and U64 give ExpectedStringGotNumber; Null, Bool,
\* Array and Object give InvalidU128; an absent key gives MissingValue.
C5_U128Classification ==
    /\ (jcall.fn = "u128" /\ jcall.recv.tag = "Object" /\ Found = {})
          => IsErr(jcall.ret, "MissingValue")
    /\ U128Call =>
          CASE Converted.tag = "String" ->
                  IF DenotesU128(Converted.str)
                  THEN IsOk(jcall.ret, Magnitude(Converted.str))
                  ELSE IF DenotesI128(Converted.str)
                       THEN IsErr(jcall.ret, "OutOfRange(OutOfRangeU128)")
                  ELSE IsErr(jcall.ret, "InvalidU128")
            [] Converted.tag \in {"F64", "I64", "U64"} ->
                  IsErr(jcall.ret, "ExpectedStringGotNumber")
            [] OTHER -> IsErr(jcall.ret, "InvalidU128")

\* u128("a") on {"a": "340282366920938463463374607431768211455"}
C5_Witness ==
    /\ jcall.fn = "u128"
    /\ jcall.recv.tag = "Object"
    /\ Found # {}
    /\ FoundValue = JString(DigitChars(U128Max))
    /\ IsOk(jcall.ret, U128Max)

\* C6: parse_u8 gives Ok(n) exactly for U64(n) with n <= 255, the byte being
\* n itself; OutOfRange(OutOfRangeU8) for every U64(n) with n >= 256; and
\* InvalidU8 for every other variant, I64 and F64 inside 0..255 included.
C6_ParseU8 ==
    jcall.fn = "parse_u8" =>
        /\ jcall.ret.ok <=> (jcall.recv.tag = "U64" /\ jcall.recv.u64 <= 255)
        /\ jcall.ret.ok => jcall.ret.val = jcall.recv.u64
        /\ (jcall.recv.tag = "U64" /\ jcall.recv.u64 >= 256)
              => IsErr(jcall.ret, "OutOfRange(OutOfRangeU8)")
        /\ jcall.recv.tag # "U64" => IsErr(jcall.ret, "InvalidU8")

C6_Witness ==
    /\ jcall.fn = "parse_u8"
    /\ jcall.recv = JU64(256)
    /\ IsErr(jcall.ret, "OutOfRange(OutOfRangeU8)")

\* C7: log_to_bytes enforces the one-byte topic count: the first output byte
\* is the number of topics, and a log of more than 255 topics is rejected
\* instead of being encoded with a wrapped count byte.
C7_TopicCountEnforced ==
    logCall.fn = "log_to_bytes" =>
        IF logCall.ntopics > 255 THEN logCall.ret.status = "rejected"
        ELSE /\ logCall.ret.status = "returned"
             /\ logCall.ret.bytes[1] = logCall.ntopics

BothBuilt    == \A b \in Builders : val[b] # NoValue
BothRendered == \A b \in Builders : out[b] # NoText

RECURSIVE HasNaN(_)
\* an F64 NaN anywhere in the value
HasNaN(v) ==
    CASE v.tag = "F64"    -> v.f64.nan
      [] v.tag = "Array"  -> \E i \in 1..Len(v.vec) : HasNaN(v.vec[i])
      [] v.tag = "Object" -> \E i \in 1..Len(v.map) : HasNaN(v.map[i][2])
      [] OTHER            -> FALSE

\* where the entry of key k starts in a rendering: the first "k":
EntryMark(k) == Quoted(k) \o <<58, 32>>
StartsAt(text, m, i) ==
    i + Len(m) - 1 <= Len(text) /\ SubSeq(text, i, i + Len(m) - 1) = m
EntryPos(text, k) ==
    LET at == {i \in 1..Len(text) : StartsAt(text, EntryMark(k), i)}
    IN  IF at = {} THEN 0 ELSE CHOOSE i \in at : \A j \in at : i <= j

\* every key is rendered, and a smaller key before a greater one
RenderedAscending(text) ==
    /\ \A p \in pairs : EntryPos(text, p[1]) > 0
    /\ \A p \in pairs, q \in pairs :
          StrLess(p[1], q[1]) => EntryPos(text, p[1]) < EntryPos(text, q[1])

\* C8 as stated: whatever the order of the insert calls, the two finished
\* values are equal under == and render identically, entries in ascending
\* key order.
C8_OrderIndependentEq ==
    /\ BothBuilt => JsonEq(val["A"], val["B"])
    /\ BothRendered => /\ out["A"] = out["B"]
                       /\ RenderedAscending(out["A"])

\* C8 amended: the renderings are identical and in ascending key order for
\* every set of pairs; the values are equal under == when no value holds an
\* F64 NaN (which the derived PartialEq finds unequal to itself).
C8_OrderIndependent ==
    /\ BothBuilt =>
          /\ \A i \in 1..Len(val["A"].map) :
                val["A"].map[i][1] = val["B"].map[i][1]
          /\ (\A p \in pairs : ~HasNaN(p[2])) => JsonEq(val["A"], val["B"])
    /\ BothRendered => /\ out["A"] = out["B"]
                       /\ RenderedAscending(out["A"])

\* Three pairs inserted in opposite orders, neither of them ascending.
C8_Witness ==
    /\ BothRendered
    /\ Cardinality(pairs) = 3
    /\ order["A"] = <<<<98>>, <<97, 98>>, <<97>>>>
    /\ order["B"] = <<<<97>>, <<97, 98>>, <<98>>>>
    /\ \A p \in pairs : ~HasNaN(p[2])
    /\ JsonEq(val["A"], val["B"])
    /\ out["A"] = out["B"]

LowerHexChars == (48..57) \cup (97..102)

\* A standard hex decoder (accepting both letter cases), used to state the
\* round trip.
HexValue(c) ==
    CASE c \in 48..57  -> c - 48
      [] c \in 97..102 -> c - 87
      [] c \in 65..70  -> c - 55
      [] OTHER         -> -1

HexDecode(s) == [i \in 1..(Len(s) \div 2) |->
                    16 * HexValue(s[2 * i - 1]) + HexValue(s[2 * i])]

\* C9: bytes_to_hex(b) has 2 * len(b) characters of 0123456789abcdef, the
\* high digit of each byte before its low digit, so that decoding it gives b
\* again; [0, 1, 255, 16] gives "0001ff10".
C9_HexRoundTrip ==
    hexCall.fn = "bytes_to_hex" =>
        /\ Len(hexCall.ret) = 2 * Len(hexCall.v)
        /\ \A i \in 1..Len(hexCall.ret) : hexCall.ret[i] \in LowerHexChars
        /\ \A i \in 1..Len(hexCall.v) :
              /\ HexValue(hexCall.ret[2 * i - 1]) = hexCall.v[i] \div 16
              /\ HexValue(hexCall.ret[2 * i]) = hexCall.v[i] % 16
        /\ HexDecode(hexCall.ret) = hexCall.v
        /\ hexCall.v = <<0, 1, 255, 16>>
              => hexCall.ret = <<48, 48, 48, 49, 102, 102, 49, 48>>

C9_Witness ==
    /\ hexCall.fn = "bytes_to_hex"
    /\ hexCall.v = <<0, 1, 255, 16>>
    /\ hexCall.ret = <<48, 48, 48, 49, 102, 102, 49, 48>>

\* C10: for a String, OutOfRange(OutOfRangeU128) is returned exactly for a
\* '-' followed by digits of magnitude at most 2^127 ("-0" included); the
\* decimal 2^128 gives InvalidU128; and every string of digits denoting a
\* value in 0 .. 2^128 - 1 gives Ok.
C10_OutOfRangeOnlyNegative ==
    (U128Call /\ Converted.tag = "String") =>
        LET s == Converted.str
        IN  /\ IsErr(jcall.ret, "OutOfRange(OutOfRangeU128)")
                  <=> (IsMinus(s) /\ IsDecimal(s)
                       /\ BigLeq(Magnitude(s), I128MinMag))
            /\ s = DigitChars(BigSucc(U128Max))
                  => IsErr(jcall.ret, "InvalidU128")
            /\ (IsDecimal(s) /\ ~HasSign(s) /\ BigLeq(Magnitude(s), U128Max))
                  => jcall.ret.ok

\* "340282366920938463463374607431768211456" is rejected as invalid.
C10_Witness ==
    /\ jcall.fn = "try_from"
    /\ jcall.recv = JString(DigitChars(BigSucc(U128Max)))
    /\ IsErr(jcall.ret, "InvalidU128")


====
